---- MODULE Spec2Model ----
(***************************************************************************)
(* DS.EmbeddedRecordsMixin (activemodel-adapter): the embedding pass       *)
(* (serializeHasMany), the flattening pass (extractSingle / extractArray   *)
(* through updatePayloadWithEmbedded) and the clientIdMap they share.      *)
(*                                                                         *)
(* JavaScript objects are functions from field names to values; a field    *)
(* that is absent is outside the DOMAIN, and reading it gives Undefined.   *)
(***************************************************************************)
EXTENDS Integers, Sequences, FiniteSets, TLC

VARIABLES
  container,     \* the registrations: the model types and the serializer base class
  serializers,   \* type key -> the serializer registered for it (its configuration)
  clientIdMap,   \* type key -> the clientIdMap of that type's serializer
  recId,         \* in-memory record -> its id (None while unpersisted)
  graph,         \* the hasMany relations of the records, as last serialized
  json,          \* the outgoing payload of the last serialize (None: nothing sent)
  response,      \* the payload handed to extractSingle / extractArray (None: none)
  normalized,    \* what the last extract pass handed on to _super (None: none)
  overlap        \* a second request sent before the first was answered (None: none)

vars == <<container, serializers, clientIdMap, recId, graph, json, response,
          normalized, overlap>>

----------------------------------------------------------------------------
(* Bounds of the model *)

\* the number of superVillain records the store holds (children of one relation)
MaxChildren == 2

\* the embedded data of a payload handed to normalize: its embedded nodes plus
\* its empty arrays
MaxEmbedded == 2

\* the root nodes of a payload handed to extractArray
MaxRoots == 2

----------------------------------------------------------------------------
(* JavaScript values *)

None == "<none>"
Undefined == "<undefined>"

EmptyObject == [k \in {} |-> Undefined]

Has(o, k) == k \in DOMAIN o

Get(o, k) == IF k \in DOMAIN o THEN o[k] ELSE Undefined

Put(o, k, v) == [x \in (DOMAIN o) \cup {k} |-> IF x = k THEN v ELSE o[x]]

Delete(o, k) == [x \in (DOMAIN o) \ {k} |-> o[x]]

----------------------------------------------------------------------------
(* The models of the test suite and the records of the store *)

TypeKeys == {"homePlanet", "superVillain", "evilMinion", "comment"}

Relationships(type) ==
  CASE type = "homePlanet" ->
         << [key |-> "villains", kind |-> "hasMany", type |-> "superVillain"],
            [key |-> "reformedVillains", kind |-> "hasMany", type |-> "superVillain"] >>
    [] type = "superVillain" ->
         << [key |-> "homePlanet", kind |-> "belongsTo", type |-> "homePlanet"],
            [key |-> "evilMinions", kind |-> "hasMany", type |-> "evilMinion"] >>
    [] type = "evilMinion" ->
         << [key |-> "superVillain", kind |-> "belongsTo", type |-> "superVillain"] >>
    [] type = "comment" ->
         << [key |-> "children", kind |-> "hasMany", type |-> "comment"] >>

League == "h1"
Villain(i) == "v" \o ToString(i)
Villains == { Villain(i) : i \in 1..MaxChildren }
Minion == "m1"
Records == {League} \cup Villains \cup {Minion}

TypeOf(record) ==
  IF record = League THEN "homePlanet"
  ELSE IF record = Minion THEN "evilMinion" ELSE "superVillain"

\* Ember.guidFor: one stable guid per object, different objects have different guids
GuidFor(record) == "ember-" \o record

\* Ember.get(record, property): a DS.Model keeps its identifier under 'id'
RecordGet(record, property) ==
  IF property = "id" /\ recId[record] # None THEN recId[record] ELSE Undefined

----------------------------------------------------------------------------
(* Serializers: DS.ActiveModelSerializer.extend(DS.EmbeddedRecordsMixin, {...}) *)

AlwaysAttrs(keys) == [k \in keys |-> "always"]

Serializer(hasAttrs, attrs, clientIdKey, primaryKey) ==
  [hasAttrs |-> hasAttrs, attrs |-> attrs,
   clientIdKey |-> clientIdKey, primaryKey |-> primaryKey]

\* the registrations of the tests: every hasMany of the three parents embedded
Registered(clientIdKey, primaryKey) ==
  [t \in TypeKeys |->
     CASE t = "homePlanet" ->
            Serializer(TRUE, AlwaysAttrs({"villains", "reformedVillains"}),
                       clientIdKey, primaryKey)
       [] t = "superVillain" ->
            Serializer(TRUE, AlwaysAttrs({"evilMinions"}), "_clientId", primaryKey)
       [] t = "comment" ->
            Serializer(TRUE, AlwaysAttrs({"children"}), "_clientId", primaryKey)
       [] t = "evilMinion" ->
            Serializer(FALSE, EmptyObject, "_clientId", primaryKey)]

\* registrations that embed nothing for the league: its serializer has no attrs,
\* or attrs whose entries set no embedded policy; the other serializers as in the
\* tests
Unembedded(hasAttrs) ==
  [Registered("_clientId", "id") EXCEPT
     !["homePlanet"] =
        Serializer(hasAttrs,
                   IF hasAttrs THEN [k \in {"villains", "reformedVillains"} |-> Undefined]
                   ELSE EmptyObject,
                   "_clientId", "id")]

UnembeddedConfigs == { Unembedded(FALSE), Unembedded(TRUE) }

\* the embedded policies an attrs entry may set; an entry may also be left out
Policies == {"always", "load", "none"}

\* attrs with an entry for each key whose policy is given
PolicyAttrs(policyOf) ==
  [k \in { x \in DOMAIN policyOf : policyOf[x] \in Policies } |-> policyOf[k]]

\* registrations with a policy, or no entry, for the league's villains and for the
\* villains' minions; the villains' serializer also sets a policy on its belongsTo
Configured(villains, evilMinions) ==
  [Registered("_clientId", "id") EXCEPT
     !["homePlanet"] =
        Serializer(TRUE,
                   PolicyAttrs([villains |-> villains, reformedVillains |-> "always"]),
                   "_clientId", "id"),
     !["superVillain"] =
        Serializer(TRUE,
                   PolicyAttrs([evilMinions |-> evilMinions, homePlanet |-> "always"]),
                   "_clientId", "id")]

PolicyConfigs ==
  { Configured(p, q) : p \in Policies \cup {Undefined}, q \in Policies \cup {Undefined} }

SerializerConfigs ==
  { Registered("_clientId", "id"),
    Registered("localId", "id"),
    Registered("_clientId", "_id") }

\* the serializer classes the mixin is mixed into
BaseClasses == {"ActiveModelSerializer", "JSONSerializer"}

\* the registrations of the tests: every model, serializers extending
\* DS.ActiveModelSerializer
FullContainer == [models |-> TypeKeys, base |-> "ActiveModelSerializer"]

\* keyForAttribute: DS.ActiveModelSerializer decamelizes, DS.JSONSerializer
\* returns the key
keyForAttribute(key) ==
  IF container.base = "JSONSerializer" THEN key
  ELSE
  CASE key = "homePlanet" -> "home_planet"
    [] key = "superVillain" -> "super_villain"
    [] key = "evilMinion" -> "evil_minion"
    [] key = "reformedVillains" -> "reformed_villains"
    [] key = "evilMinions" -> "evil_minions"
    [] OTHER -> key

\* keyForRelationship: DS.ActiveModelSerializer gives singular key + "_ids" for a
\* hasMany, DS.JSONSerializer returns the key
keyForRelationship(key, kind) ==
  IF container.base = "JSONSerializer" THEN key
  ELSE
  IF kind = "belongsTo" THEN keyForAttribute(key) \o "_id"
  ELSE CASE key = "villains" -> "villain_ids"
         [] key = "reformedVillains" -> "reformed_villain_ids"
         [] key = "evilMinions" -> "evil_minion_ids"
         [] key = "children" -> "child_ids"
         [] OTHER -> keyForAttribute(key) \o "_ids"

pluralize(word) == word \o "s"

----------------------------------------------------------------------------
(* The embedding pass *)

\* createClientId: register the record under its guid, return the guid
createClientIdKeyedByType(map, record) ==
  [guid |-> TypeOf(record), map |-> Put(map, TypeOf(record), record)]

createClientIdPerCall(map, record) ==
  LET guid == IF Has(map, GuidFor(record)) THEN GuidFor(record) \o "-2"
              ELSE GuidFor(record)
  IN  [guid |-> guid, map |-> Put(map, guid, record)]

createClientId(map, record) ==
  [guid |-> GuidFor(record), map |-> Put(map, GuidFor(record), record)]

\* the relation of a record: get(record, key), as the object graph has it
HasMany(relations, record, key) ==
  IF record = League /\ key = "villains" THEN relations.villains
  ELSE IF record \in Villains /\ key = "evilMinions" /\ relations.minionOf = record
       THEN <<Minion>>
       ELSE <<>>

RECURSIVE serialize(_, _, _)
RECURSIVE EmbedRelation(_, _, _, _, _, _)
RECURSIVE SerializeRelationships(_, _, _, _, _)

\* the identity field serializeHasMany puts on one serialized child
IdentifyChild(serializer, relation, data, maps) ==
  LET primaryKey == serializers[serializer].primaryKey
      clientIdKey == serializers[serializer].clientIdKey
      id == RecordGet(relation, primaryKey)
  IN  IF id # Undefined
      THEN [data |-> Put(data, primaryKey, RecordGet(relation, primaryKey)),
            maps |-> maps]
      ELSE LET c == createClientId(maps[serializer], relation)
           IN  [data |-> Put(data, clientIdKey, c.guid),
                maps |-> [maps EXCEPT ![serializer] = c.map]]

\* get(record, key).map(function(relation) {...}, this), from child i on
EmbedRelation(serializer, related, i, out, maps, relations) ==
  IF i > Len(related) THEN [out |-> out, maps |-> maps]
  ELSE LET relation == related[i]
           s == serialize(relation, maps, relations)
           c == IdentifyChild(serializer, relation, s.json, s.maps)
       IN  EmbedRelation(serializer, related, i + 1, Append(out, c.data),
                         c.maps, relations)

serializeHasManyOnLoad(serializer, record, out, relationship, maps, relations) ==
  LET key == relationship.key
      ser == serializers[serializer]
      embed == ser.hasAttrs /\ Has(ser.attrs, key)
                 /\ ser.attrs[key] \in {"always", "load"}
  IN  IF embed
      THEN LET e == EmbedRelation(serializer, HasMany(relations, record, key), 1,
                                  <<>>, maps, relations)
           IN  [json |-> Put(out, keyForAttribute(key), e.out), maps |-> e.maps]
      ELSE [json |-> out, maps |-> maps]

serializeHasMany(serializer, record, out, relationship, maps, relations) ==
  LET key == relationship.key
      ser == serializers[serializer]
      embed == ser.hasAttrs /\ Has(ser.attrs, key) /\ ser.attrs[key] = "always"
  IN  IF embed
      THEN LET e == EmbedRelation(serializer, HasMany(relations, record, key), 1,
                                  <<>>, maps, relations)
           IN  [json |-> Put(out, keyForAttribute(key), e.out), maps |-> e.maps]
      ELSE [json |-> out, maps |-> maps]

\* record.eachRelationship of DS.JSONSerializer.serialize, from relationship i on
SerializeRelationships(record, i, out, maps, relations) ==
  LET rels == Relationships(TypeOf(record))
  IN  IF i > Len(rels) THEN [json |-> out, maps |-> maps]
      ELSE IF rels[i].kind = "hasMany"
           THEN LET s == serializeHasMany(TypeOf(record), record, out, rels[i],
                                          maps, relations)
                IN  SerializeRelationships(record, i + 1, s.json, s.maps, relations)
           ELSE SerializeRelationships(record, i + 1, out, maps, relations)

\* record.serialize(): the record's own serializer, without its id
serialize(record, maps, relations) ==
  SerializeRelationships(record, 1, EmptyObject, maps, relations)

----------------------------------------------------------------------------
(* The flattening pass *)

\* store.serializerFor(typeKey): the serializer registered for the type
serializerFor(typeKey) == typeKey

\* store.modelFor(typeKey) finds the model registered under the type key, and
\* throws when there is none
ModelFound(typeKey) == typeKey \in container.models

NoModelFound(typeKey) == "No model was found for '" \o typeKey \o "'"

EmbeddedTypeKeyPlain(typeKey) == pluralize(typeKey)

\* '_' + Ember.String.pluralize(relationship.type.typeKey)
EmbeddedTypeKey(typeKey) == "_" \o pluralize(typeKey)

\* clientRecord.adapterWillCommit(); store.didSaveRecord(clientRecord, data):
\* the record takes the identifier the server data carries
didSaveRecord(ids, clientRecord, data, primaryKey) ==
  IF Has(data, primaryKey) THEN [ids EXCEPT ![clientRecord] = data[primaryKey]]
  ELSE ids

EnsureBucketAfresh(payload, embeddedTypeKey) == Put(payload, embeddedTypeKey, <<>>)

\* payload[embeddedTypeKey] = payload[embeddedTypeKey] || []
EnsureBucket(payload, embeddedTypeKey) ==
  IF Has(payload, embeddedTypeKey) THEN payload
  ELSE Put(payload, embeddedTypeKey, <<>>)

\* the identifier of one embedded child, as recorded in the relation's id list
EmbeddedId(data, primaryKey, clientIdKey) == Get(data, primaryKey)

RECURSIVE updatePayloadWithEmbedded(_, _, _, _)
RECURSIVE EachEmbedded(_, _, _, _, _, _)
RECURSIVE EachRelationship(_, _, _, _, _)

ReconcileInChildMap(parentSerializer, relationship, data, st) ==
  LET serializer == serializerFor(relationship.type)
      primaryKey == serializers[serializer].primaryKey
      clientIdKey == serializers[parentSerializer].clientIdKey
      embeddedTypeKey == EmbeddedTypeKey(relationship.type)
      clientId == Get(data, clientIdKey)
      map == st.maps[serializer]
  IN  IF Has(map, clientId)
      THEN [st EXCEPT
              !.ids = didSaveRecord(st.ids, map[clientId], data, primaryKey),
              !.maps[serializer] = Delete(map, clientId)]
      ELSE [st EXCEPT
              !.payload[embeddedTypeKey] = Append(st.payload[embeddedTypeKey], data)]

ReconcileKeepingEntry(parentSerializer, relationship, data, st) ==
  LET primaryKey == serializers[serializerFor(relationship.type)].primaryKey
      clientIdKey == serializers[parentSerializer].clientIdKey
      embeddedTypeKey == EmbeddedTypeKey(relationship.type)
      clientId == Get(data, clientIdKey)
      map == st.maps[parentSerializer]
  IN  IF Has(map, clientId)
      THEN [st EXCEPT
              !.ids = didSaveRecord(st.ids, map[clientId], data, primaryKey)]
      ELSE [st EXCEPT
              !.payload[embeddedTypeKey] = Append(st.payload[embeddedTypeKey], data)]

ReconcileAndSideload(parentSerializer, relationship, data, st) ==
  LET primaryKey == serializers[serializerFor(relationship.type)].primaryKey
      clientIdKey == serializers[parentSerializer].clientIdKey
      embeddedTypeKey == EmbeddedTypeKey(relationship.type)
      clientId == Get(data, clientIdKey)
      map == st.maps[parentSerializer]
  IN  IF Has(map, clientId)
      THEN [st EXCEPT
              !.ids = didSaveRecord(st.ids, map[clientId], data, primaryKey),
              !.maps[parentSerializer] = Delete(map, clientId),
              !.payload[embeddedTypeKey] = Append(st.payload[embeddedTypeKey], data)]
      ELSE [st EXCEPT
              !.payload[embeddedTypeKey] = Append(st.payload[embeddedTypeKey], data)]

ReconcileOrDropUnknown(parentSerializer, relationship, data, st) ==
  LET primaryKey == serializers[serializerFor(relationship.type)].primaryKey
      clientIdKey == serializers[parentSerializer].clientIdKey
      embeddedTypeKey == EmbeddedTypeKey(relationship.type)
      clientId == Get(data, clientIdKey)
      map == st.maps[parentSerializer]
  IN  IF Has(map, clientId)
      THEN [st EXCEPT
              !.ids = didSaveRecord(st.ids, map[clientId], data, primaryKey),
              !.maps[parentSerializer] = Delete(map, clientId)]
      ELSE IF Has(data, clientIdKey) THEN st
      ELSE [st EXCEPT
              !.payload[embeddedTypeKey] = Append(st.payload[embeddedTypeKey], data)]

ReconcileOrSideloadOnce(parentSerializer, relationship, data, st) ==
  LET primaryKey == serializers[serializerFor(relationship.type)].primaryKey
      clientIdKey == serializers[parentSerializer].clientIdKey
      embeddedTypeKey == EmbeddedTypeKey(relationship.type)
      clientId == Get(data, clientIdKey)
      map == st.maps[parentSerializer]
      bucket == st.payload[embeddedTypeKey]
  IN  IF Has(map, clientId)
      THEN [st EXCEPT
              !.ids = didSaveRecord(st.ids, map[clientId], data, primaryKey),
              !.maps[parentSerializer] = Delete(map, clientId)]
      ELSE IF \E k \in DOMAIN bucket : bucket[k] = data THEN st
      ELSE [st EXCEPT
              !.payload[embeddedTypeKey] = Append(st.payload[embeddedTypeKey], data)]

\* one embedded child, already flattened: reconcile it or sideload it
ReconcileOrSideload(parentSerializer, relationship, data, st) ==
  LET primaryKey == serializers[serializerFor(relationship.type)].primaryKey
      clientIdKey == serializers[parentSerializer].clientIdKey
      embeddedTypeKey == EmbeddedTypeKey(relationship.type)
      clientId == Get(data, clientIdKey)
      map == st.maps[parentSerializer]
  IN  IF Has(map, clientId)
      THEN [st EXCEPT
              !.ids = didSaveRecord(st.ids, map[clientId], data, primaryKey),
              !.maps[parentSerializer] = Delete(map, clientId)]
      ELSE [st EXCEPT
              !.payload[embeddedTypeKey] = Append(st.payload[embeddedTypeKey], data)]

EachEmbeddedSideloadingFirst(parentSerializer, relationship, embedded, i, ids, st) ==
  IF i > Len(embedded) THEN [ids |-> ids, st |-> st, embedded |-> embedded]
  ELSE IF ~ModelFound(relationship.type)
  THEN [ids |-> ids, embedded |-> embedded,
        st |-> [st EXCEPT !.error = NoModelFound(relationship.type)]]
  ELSE LET serializer == serializerFor(relationship.type)
           primaryKey == serializers[serializer].primaryKey
           clientIdKey == serializers[parentSerializer].clientIdKey
           first == ReconcileOrSideload(parentSerializer, relationship,
                                        embedded[i], st)
           u == updatePayloadWithEmbedded(serializer, relationship.type,
                                          embedded[i], first)
           data == u.partial
           inPlace == [embedded EXCEPT ![i] = data]
       IN  IF u.st.error # None
           THEN [ids |-> ids, st |-> u.st, embedded |-> inPlace]
           ELSE EachEmbedded(parentSerializer, relationship, inPlace, i + 1,
                             Append(ids, EmbeddedId(data, primaryKey, clientIdKey)),
                             u.st)

EachEmbeddedPrepending(parentSerializer, relationship, embedded, i, ids, st) ==
  IF i > Len(embedded) THEN [ids |-> ids, st |-> st, embedded |-> embedded]
  ELSE IF ~ModelFound(relationship.type)
  THEN [ids |-> ids, embedded |-> embedded,
        st |-> [st EXCEPT !.error = NoModelFound(relationship.type)]]
  ELSE LET serializer == serializerFor(relationship.type)
           primaryKey == serializers[serializer].primaryKey
           clientIdKey == serializers[parentSerializer].clientIdKey
           u == updatePayloadWithEmbedded(serializer, relationship.type,
                                          embedded[i], st)
           data == u.partial
           inPlace == [embedded EXCEPT ![i] = data]
       IN  IF u.st.error # None
           THEN [ids |-> ids, st |-> u.st, embedded |-> inPlace]
           ELSE EachEmbedded(parentSerializer, relationship, inPlace, i + 1,
                             <<EmbeddedId(data, primaryKey, clientIdKey)>> \o ids,
                             ReconcileOrSideload(parentSerializer, relationship,
                                                 data, u.st))

EachEmbeddedSwallowing(parentSerializer, relationship, embedded, i, ids, st) ==
  IF i > Len(embedded) THEN [ids |-> ids, st |-> st, embedded |-> embedded]
  ELSE IF ~ModelFound(relationship.type)
  THEN [ids |-> ids, embedded |-> embedded, st |-> st]
  ELSE LET serializer == serializerFor(relationship.type)
           primaryKey == serializers[serializer].primaryKey
           clientIdKey == serializers[parentSerializer].clientIdKey
           u == updatePayloadWithEmbedded(serializer, relationship.type,
                                          embedded[i], st)
           data == u.partial
           inPlace == [embedded EXCEPT ![i] = data]
       IN  IF u.st.error # None
           THEN [ids |-> ids, st |-> u.st, embedded |-> inPlace]
           ELSE EachEmbedded(parentSerializer, relationship, inPlace, i + 1,
                             Append(ids, EmbeddedId(data, primaryKey, clientIdKey)),
                             ReconcileOrSideload(parentSerializer, relationship,
                                                 data, u.st))

\* forEach(partial[attribute], function(data) {...}), from child i on: each child
\* is flattened in place, and an error thrown on the way ends the loop
EachEmbedded(parentSerializer, relationship, embedded, i, ids, st) ==
  IF i > Len(embedded) THEN [ids |-> ids, st |-> st, embedded |-> embedded]
  ELSE IF ~ModelFound(relationship.type)
  THEN [ids |-> ids, embedded |-> embedded,
        st |-> [st EXCEPT !.error = NoModelFound(relationship.type)]]
  ELSE LET serializer == serializerFor(relationship.type)
           primaryKey == serializers[serializer].primaryKey
           clientIdKey == serializers[parentSerializer].clientIdKey
           u == updatePayloadWithEmbedded(serializer, relationship.type,
                                          embedded[i], st)
           data == u.partial
           inPlace == [embedded EXCEPT ![i] = data]
       IN  IF u.st.error # None
           THEN [ids |-> ids, st |-> u.st, embedded |-> inPlace]
           ELSE EachEmbedded(parentSerializer, relationship, inPlace, i + 1,
                             Append(ids, EmbeddedId(data, primaryKey, clientIdKey)),
                             ReconcileOrSideload(parentSerializer, relationship,
                                                 data, u.st))

EmbeddedOnAnyConfig(serializer, key) == Has(serializers[serializer].attrs, key)

\* whether attrs[key] asks normalize to flatten the relation
EmbeddedOnLoad(serializer, key) ==
  LET attrs == serializers[serializer].attrs
  IN  Has(attrs, key) /\ attrs[key] \in {"always", "load"}

EachRelationshipByType(serializer, type, i, partial, st) ==
  LET rels == Relationships(type)
  IN  IF i > Len(rels) THEN [partial |-> partial, st |-> st]
      ELSE LET relationship == rels[i]
               key == relationship.key
               expandedKey == keyForRelationship(key, relationship.kind)
               attribute == keyForAttribute(key)
           IN  IF relationship.kind # "hasMany"
                  \/ ~EmbeddedOnLoad(serializer, key)
               THEN EachRelationship(serializer, type, i + 1, partial, st)
               ELSE IF ~Has(partial, attribute)
               THEN IF st.level >= 5
                    THEN EachRelationship(serializer, type, i + 1, partial, st)
                    ELSE EachRelationship(serializer, type, i + 1, partial,
                           updatePayloadWithEmbedded(
                             serializerFor(relationship.type), relationship.type,
                             EmptyObject, st).st)
               ELSE LET st1 == [st EXCEPT !.payload =
                                  EnsureBucket(st.payload,
                                               EmbeddedTypeKey(relationship.type))]
                        e == EachEmbedded(serializer, relationship,
                                          partial[attribute], 1, <<>>, st1)
                    IN  IF e.st.error # None
                        THEN [partial |-> Put(partial, attribute, e.embedded),
                              st |-> e.st]
                        ELSE EachRelationship(serializer, type, i + 1,
                               Delete(Put(partial, expandedKey, e.ids), attribute),
                               e.st)

EachRelationshipStoppingAtMissing(serializer, type, i, partial, st) ==
  LET rels == Relationships(type)
  IN  IF i > Len(rels) THEN [partial |-> partial, st |-> st]
      ELSE LET relationship == rels[i]
               key == relationship.key
               expandedKey == keyForRelationship(key, relationship.kind)
               attribute == keyForAttribute(key)
           IN  IF relationship.kind # "hasMany"
                  \/ ~EmbeddedOnLoad(serializer, key)
               THEN EachRelationship(serializer, type, i + 1, partial, st)
               ELSE IF ~Has(partial, attribute)
               THEN [partial |-> partial, st |-> st]
               ELSE LET st1 == [st EXCEPT !.payload =
                                  EnsureBucket(st.payload,
                                               EmbeddedTypeKey(relationship.type))]
                        e == EachEmbedded(serializer, relationship,
                                          partial[attribute], 1, <<>>, st1)
                    IN  IF e.st.error # None
                        THEN [partial |-> Put(partial, attribute, e.embedded),
                              st |-> e.st]
                        ELSE EachRelationship(serializer, type, i + 1,
                               Delete(Put(partial, expandedKey, e.ids), attribute),
                               e.st)

\* type.eachRelationship(function(key, relationship) {...}), from relationship i on
EachRelationship(serializer, type, i, partial, st) ==
  LET rels == Relationships(type)
  IN  IF i > Len(rels) THEN [partial |-> partial, st |-> st]
      ELSE LET relationship == rels[i]
               key == relationship.key
               expandedKey == keyForRelationship(key, relationship.kind)
               attribute == keyForAttribute(key)
           IN  IF relationship.kind # "hasMany"
                  \/ ~EmbeddedOnLoad(serializer, key)
                  \/ ~Has(partial, attribute)
               THEN EachRelationship(serializer, type, i + 1, partial, st)
               ELSE LET st1 == [st EXCEPT !.payload =
                                  EnsureBucket(st.payload,
                                               EmbeddedTypeKey(relationship.type))]
                        e == EachEmbedded(serializer, relationship,
                                          partial[attribute], 1, <<>>, st1)
                    IN  IF e.st.error # None
                        THEN [partial |-> Put(partial, attribute, e.embedded),
                              st |-> e.st]
                        ELSE EachRelationship(serializer, type, i + 1,
                               Delete(Put(partial, expandedKey, e.ids), attribute),
                               e.st)

updatePayloadWithEmbedded(serializer, type, partial, st) ==
  LET entered == [st EXCEPT !.level = @ + 1,
                            !.deepest = IF st.level + 1 > @ THEN st.level + 1 ELSE @]
      u == IF ~serializers[serializer].hasAttrs
           THEN [partial |-> partial, st |-> entered]
           ELSE EachRelationship(serializer, type, 1, partial, entered)
  IN  [partial |-> u.partial, st |-> [u.st EXCEPT !.level = @ - 1]]

\* the state one extract pass works on: the payload, the maps and the records,
\* the error thrown if any, and the calls of updatePayloadWithEmbedded on the
\* stack (level) with the most there have been (deepest)
PassState(payload) ==
  [payload |-> payload, maps |-> clientIdMap, ids |-> recId, error |-> None,
   level |-> 0, deepest |-> 0]

\* extractSingle up to its call of _super: the root node is flattened in place
extractSingle(primaryType, payload) ==
  LET root == keyForAttribute(primaryType)
      u == updatePayloadWithEmbedded(serializerFor(primaryType), primaryType,
                                     payload[root], PassState(payload))
  IN  [u.st EXCEPT !.payload = Put(u.st.payload, root, u.partial)]

RECURSIVE ForEachPartial(_, _, _, _, _)

\* forEach(partials, function(partial) {...}), from root i of the n roots on
ForEachPartial(type, rootsKey, i, n, st) ==
  IF i > n THEN st
  ELSE LET u == updatePayloadWithEmbedded(serializerFor(type), type,
                                          st.payload[rootsKey][i], st)
           st1 == [u.st EXCEPT !.payload[rootsKey][i] = u.partial]
       IN  IF st1.error # None THEN st1
           ELSE ForEachPartial(type, rootsKey, i + 1, n, st1)

\* extractArray up to its call of _super: all roots share the one payload
extractArray(type, payload) ==
  LET rootsKey == pluralize(keyForAttribute(type))
  IN  ForEachPartial(type, rootsKey, 1, Len(payload[rootsKey]),
                     PassState(payload))

----------------------------------------------------------------------------
(* The server and the payloads it sends *)

NoPayload == [none |-> TRUE]

\* the identifier the server assigns to the new entity sent under a placeholder
ServerId(clientId) == "id-" \o clientId

\* the identifier of a record the server already knows
PersistedId(record) == ServerId(GuidFor(record))

RECURSIVE ServerFields(_, _, _)
RECURSIVE ServerArray(_, _, _, _)

\* the answers to one embedded child of a request: a new child (placeholder, no
\* identifier) comes back confirmed (placeholder echoed, identifier assigned),
\* unchanged, or as a plain entity (identifier, no placeholder)
ServerNode(parentType, type, node) ==
  LET primaryKey == serializers[serializerFor(type)].primaryKey
      clientIdKey == serializers[serializerFor(parentType)].clientIdKey
  IN  UNION { IF Has(n, clientIdKey) /\ ~Has(n, primaryKey)
              THEN { Put(n, primaryKey, ServerId(n[clientIdKey])),
                     n,
                     Delete(Put(n, primaryKey, ServerId(n[clientIdKey])),
                            clientIdKey) }
              ELSE {n}
              : n \in ServerFields(type, 1, node) }

ServerArray(parentType, type, nodes, i) ==
  IF i > Len(nodes) THEN { <<>> }
  ELSE { <<h>> \o t : h \in ServerNode(parentType, type, nodes[i]),
                      t \in ServerArray(parentType, type, nodes, i + 1) }

\* the answers to a request node: each embedded array answered child by child
ServerFields(type, i, node) ==
  LET rels == Relationships(type)
  IN  IF i > Len(rels) THEN {node}
      ELSE LET attribute == keyForAttribute(rels[i].key)
           IN  IF rels[i].kind = "hasMany" /\ Has(node, attribute)
               THEN UNION { ServerFields(type, i + 1, Put(node, attribute, a))
                            : a \in ServerArray(type, rels[i].type,
                                                node[attribute], 1) }
               ELSE ServerFields(type, i + 1, node)

\* the object graphs serialize is given: the league's villains in some order,
\* none twice, and whether the first of them has the minion
RECURSIVE DistinctSeqs(_, _)
DistinctSeqs(set, n) ==
  IF n = 0 THEN { <<>> }
  ELSE LET shorter == DistinctSeqs(set, n - 1)
       IN  shorter \cup { Append(q, x) : q \in { r \in shorter : Len(r) = n - 1 },
                                          x \in set }

Range(q) == { q[i] : i \in DOMAIN q }

Graphs ==
  LET orders == { r \in DistinctSeqs(Villains, MaxChildren) :
                    Cardinality(Range(r)) = Len(r) }
  IN  { [villains |-> q, minionOf |-> None] : q \in orders }
        \cup { [villains |-> q, minionOf |-> q[Len(q)]] : q \in orders \ { <<>> } }

----------------------------------------------------------------------------
(* The operations *)

\* store.createRecord: the league, and villains and a minion that are new (no id)
\* or were created with the id the server knows them by
Init ==
  /\ container = FullContainer
  /\ overlap = NoPayload
  /\ serializers \in SerializerConfigs
  /\ clientIdMap = [t \in TypeKeys |-> EmptyObject]
  /\ recId \in { ids \in [Records -> {None, "123"} \cup { PersistedId(r) : r \in Records }] :
                   /\ ids[League] = "123"
                   /\ \A r \in Records \ {League} : ids[r] \in {None, PersistedId(r)} }
  /\ graph = [villains |-> <<>>, minionOf |-> None]
  /\ json = NoPayload
  /\ response = NoPayload
  /\ normalized = NoPayload

\* serializer.serialize(league): the embedding pass over the league's graph
Serialize ==
  /\ response = NoPayload \/ normalized # NoPayload
  /\ \E relations \in Graphs :
       LET s == serialize(League, clientIdMap, relations)
       IN  /\ graph' = relations
           /\ json' = s.json
           /\ clientIdMap' = s.maps
           /\ response' = NoPayload
           /\ normalized' = NoPayload
           /\ overlap' = NoPayload
           /\ UNCHANGED <<container, serializers, recId>>

\* the server answers the request in flight
Respond ==
  /\ json # NoPayload
  /\ response = NoPayload
  /\ \E root \in ServerFields("homePlanet", 1, json) :
       response' = (keyForAttribute("homePlanet") :> root)
  /\ UNCHANGED <<container, serializers, clientIdMap, recId, graph, json,
                 normalized, overlap>>

PrimaryTypes == {"homePlanet", "comment"}

ExtractSingle ==
  /\ response # NoPayload
  /\ normalized = NoPayload
  /\ \E primaryType \in PrimaryTypes :
       /\ Has(response, keyForAttribute(primaryType))
       /\ LET st == extractSingle(primaryType, response)
          IN  /\ normalized' = [op |-> "extractSingle", type |-> primaryType,
                                payload |-> st.payload, error |-> st.error,
                                depth |-> st.deepest]
              /\ clientIdMap' = st.maps
              /\ recId' = st.ids
  /\ UNCHANGED <<container, serializers, graph, json, response, overlap>>

ExtractArray ==
  /\ response # NoPayload
  /\ normalized = NoPayload
  /\ \E type \in PrimaryTypes :
       /\ Has(response, pluralize(keyForAttribute(type)))
       /\ LET st == extractArray(type, response)
          IN  /\ normalized' = [op |-> "extractArray", type |-> type,
                                payload |-> st.payload, error |-> st.error,
                                depth |-> st.deepest]
              /\ clientIdMap' = st.maps
              /\ recId' = st.ids
  /\ UNCHANGED <<container, serializers, graph, json, response, overlap>>

Next == Serialize \/ Respond \/ ExtractSingle

Spec == Init /\ [][Next]_vars

----------------------------------------------------------------------------
(* The payloads normalize is applied to: every nested payload of the test      *)
(* suite's types, by size                                                      *)

PayloadIds == {"1", "2"}

\* the identity fields an embedded node may carry: none, an identifier, a
\* placeholder, or both
Labels(parentType, type) ==
  LET primaryKey == serializers[serializerFor(type)].primaryKey
      clientIdKey == serializers[serializerFor(parentType)].clientIdKey
      placeholder == GuidFor(Villain(1))
  IN  {EmptyObject}
        \cup { (primaryKey :> id) : id \in PayloadIds }
        \cup { (clientIdKey :> placeholder),
               (primaryKey :> "1") @@ (clientIdKey :> placeholder) }

\* the (parent type, child type) pairs of the hasMany relationships
Edges ==
  UNION { { <<t, Relationships(t)[i].type>> :
              i \in { x \in DOMAIN Relationships(t) :
                        Relationships(t)[x].kind = "hasMany" } }
          : t \in TypeKeys }

\* one hasMany field of size j: absent (0), an empty array (1) or j nodes
FieldValues(forests, type, relationship, j) ==
  LET attribute == keyForAttribute(relationship.key)
  IN  IF j = 0 THEN {EmptyObject}
      ELSE { (attribute :> a) : a \in forests[<<type, relationship.type>>][j] }
             \cup (IF j = 1 THEN { (attribute :> <<>>) } ELSE {})

\* the values of the hasMany fields i.. of a node, of size m together
RECURSIVE FieldsOf(_, _, _, _)
FieldsOf(forests, type, i, m) ==
  LET rels == Relationships(type)
  IN  IF i > Len(rels) THEN (IF m = 0 THEN {EmptyObject} ELSE {})
      ELSE IF rels[i].kind # "hasMany" THEN FieldsOf(forests, type, i + 1, m)
      ELSE UNION { { v @@ rest : v \in FieldValues(forests, type, rels[i], j),
                                 rest \in FieldsOf(forests, type, i + 1, m - j) }
                   : j \in 0..m }

\* the embedded data up to size n, by size: nodes[e][k] the nodes along edge e of
\* size k, forests[e][k] the arrays of such nodes of size k together,
\* fields[t][k] the hasMany fields of a node of type t of size k together
RECURSIVE EmbeddedData(_)
EmbeddedData(n) ==
  IF n = 0
  THEN [nodes |-> [e \in Edges |-> <<>>],
        forests |-> [e \in Edges |-> (0 :> { <<>> })],
        fields |-> [t \in TypeKeys |-> (0 :> {EmptyObject})]]
  ELSE LET prev == EmbeddedData(n - 1)
           nodes == [e \in Edges |->
                       Append(prev.nodes[e],
                              { l @@ f : l \in Labels(e[1], e[2]),
                                         f \in prev.fields[e[2]][n - 1] })]
           forests == [e \in Edges |->
                         prev.forests[e] @@
                           (n :> UNION { { <<x>> \o f :
                                             x \in nodes[e][j],
                                             f \in prev.forests[e][n - j] }
                                         : j \in 1..n })]
           fields == [t \in TypeKeys |->
                        prev.fields[t] @@ (n :> FieldsOf(forests, t, 1, n))]
       IN  [nodes |-> nodes, forests |-> forests, fields |-> fields]

\* root node number i of a response, with embedded data of size n
RootOf(data, type, i, n) ==
  { (serializers[serializerFor(type)].primaryKey :> ToString(i)) @@ f
    : f \in data.fields[type][n] }

\* the arrays of k root nodes, numbered from i, with embedded data of size n together
RECURSIVE RootsOf(_, _, _, _, _)
RootsOf(data, type, i, k, n) ==
  IF k = 0 THEN (IF n = 0 THEN { <<>> } ELSE {})
  ELSE UNION { { <<r>> \o rest : r \in RootOf(data, type, i, j),
                                 rest \in RootsOf(data, type, i + 1, k - 1, n - j) }
               : j \in 0..n }

SinglePayloads(data) ==
  UNION { { (keyForAttribute(type) :> r) : r \in RootOf(data, type, 1, n) }
          : type \in PrimaryTypes, n \in 0..MaxEmbedded }

ArrayPayloads(data) ==
  UNION { { (pluralize(keyForAttribute(type)) :> roots)
            : roots \in RootsOf(data, type, 1, k, n) }
          : type \in PrimaryTypes, k \in 0..MaxRoots, n \in 0..MaxEmbedded }

Payloads ==
  LET data == EmbeddedData(MaxEmbedded)
  IN  SinglePayloads(data) \cup ArrayPayloads(data)

\* normalize on its own, under the registrations of the tests: the serializer has
\* embedded nothing, or the league with the one new villain whose placeholder the
\* payloads may carry
InitNormalize ==
  /\ container = FullContainer
  /\ overlap = NoPayload
  /\ serializers = Registered("_clientId", "id")
  /\ recId = [r \in Records |-> IF r = League THEN "123" ELSE None]
  /\ \E sent \in { <<>>, <<Villain(1)>> } :
       LET relations == [villains |-> sent, minionOf |-> None]
           s == serialize(League, [t \in TypeKeys |-> EmptyObject], relations)
       IN  graph = relations /\ clientIdMap = s.maps /\ json = s.json
  /\ response = NoPayload
  /\ normalized = NoPayload

\* normalize on its own under other registrations
InitNormalizeWith(registrations, configs) ==
  /\ container = registrations
  /\ overlap = NoPayload
  /\ serializers \in configs
  /\ recId = [r \in Records |-> IF r = League THEN "123" ELSE None]
  /\ \E sent \in { <<>>, <<Villain(1)>> } :
       LET relations == [villains |-> sent, minionOf |-> None]
           s == serialize(League, [t \in TypeKeys |-> EmptyObject], relations)
       IN  graph = relations /\ clientIdMap = s.maps /\ json = s.json
  /\ response = NoPayload
  /\ normalized = NoPayload

\* the container the model of the minions was never registered in
Misconfigured == [FullContainer EXCEPT !.models = TypeKeys \ {"evilMinion"}]

\* the tests' records and serializers, in that container
InitMisconfigured ==
  /\ container = Misconfigured
  /\ overlap = NoPayload
  /\ serializers = Registered("_clientId", "id")
  /\ clientIdMap = [t \in TypeKeys |-> EmptyObject]
  /\ recId = [r \in Records |-> IF r = League THEN "123" ELSE None]
  /\ graph = [villains |-> <<>>, minionOf |-> None]
  /\ json = NoPayload
  /\ response = NoPayload
  /\ normalized = NoPayload

\* the league's serializer embeds nothing
InitUnconfigured == InitNormalizeWith(FullContainer, UnembeddedConfigs)

\* a payload arrives, whatever the request was
Receive ==
  /\ response = NoPayload
  /\ response' \in Payloads
  /\ UNCHANGED <<container, serializers, clientIdMap, recId, graph, json,
                 normalized, overlap>>

NextNormalize == Receive \/ ExtractSingle \/ ExtractArray

SpecNormalize == InitNormalize /\ [][NextNormalize]_vars

SpecUnconfigured == InitUnconfigured /\ [][NextNormalize]_vars

SpecMisconfigured == InitMisconfigured /\ [][Next]_vars

\* the payloads of a league: its root node with embedded data, the embedded
\* villains with or without their league nested under the belongsTo
WithOwner(root) ==
  LET owner == (keyForAttribute("homePlanet") :> [id |-> "123"])
      owned(nodes) == [i \in DOMAIN nodes |-> nodes[i] @@ owner]
  IN  [k \in DOMAIN root |->
         IF k \in {keyForAttribute("villains"), keyForAttribute("reformedVillains")}
         THEN owned(root[k]) ELSE root[k]]

LeaguePayloads ==
  LET data == EmbeddedData(MaxEmbedded)
      roots == UNION { RootOf(data, "homePlanet", 1, n) : n \in 0..MaxEmbedded }
  IN  { (keyForAttribute("homePlanet") :> r) : r \in roots }
        \cup { (keyForAttribute("homePlanet") :> WithOwner(r)) : r \in roots }

\* the tests' records, the serializers registered with any policy
InitPolicies ==
  /\ container = FullContainer
  /\ overlap = NoPayload
  /\ serializers \in PolicyConfigs
  /\ clientIdMap = [t \in TypeKeys |-> EmptyObject]
  /\ recId = [r \in Records |-> IF r = League THEN "123" ELSE None]
  /\ graph = [villains |-> <<>>, minionOf |-> None]
  /\ json = NoPayload
  /\ response = NoPayload
  /\ normalized = NoPayload

\* a payload of the league arrives at a store that has sent nothing
ReceiveLeague ==
  /\ json = NoPayload
  /\ response = NoPayload
  /\ response' \in LeaguePayloads
  /\ UNCHANGED <<container, serializers, clientIdMap, recId, graph, json,
                 normalized, overlap>>

NextPolicies == Serialize \/ ReceiveLeague \/ ExtractSingle

SpecPolicies == InitPolicies /\ [][NextPolicies]_vars

\* the serializers extend DS.JSONSerializer: keyForAttribute and
\* keyForRelationship both give the key itself
PlainKeys == [FullContainer EXCEPT !.base = "JSONSerializer"]

InitPlainKeys == InitNormalizeWith(PlainKeys, {Registered("_clientId", "id")})

SpecPlainKeys == InitPlainKeys /\ [][NextNormalize]_vars

----------------------------------------------------------------------------
(* What the claims speak of *)

\* an extract pass has just run
ExtractStep == normalized = NoPayload /\ normalized' # NoPayload

\* the last thing that happened is an embedding pass
JustEmbedded == json # NoPayload /\ response = NoPayload

\* o[k], for a comparison that must not fail when k is absent
ListAt(o, k) == IF Has(o, k) THEN o[k] ELSE <<"<absent>">>

LeagueKey == keyForAttribute("homePlanet")
VillainsKey == keyForAttribute("villains")
VillainIdsKey == keyForRelationship("villains", "hasMany")
VillainBucket == EmbeddedTypeKey("superVillain")
MinionBucket == EmbeddedTypeKey("evilMinion")
LeagueClientIdKey == serializers["homePlanet"].clientIdKey
VillainPrimaryKey == serializers["superVillain"].primaryKey

\* the children sent for the league's villains, and what the response holds for them
SentVillains == json[VillainsKey]
EchoedVillains == response[LeagueKey][VillainsKey]

----------------------------------------------------------------------------
\* the request embedded children without an id only, starting from an empty map,
\* and the response echoes each of them with its placeholder and an id
IsRoundTrip ==
  /\ json # NoPayload
  /\ response # NoPayload
  /\ Has(response, LeagueKey)
  /\ \A i \in DOMAIN SentVillains :
       /\ recId[graph.villains[i]] = None
       /\ Has(SentVillains[i], LeagueClientIdKey)
  /\ DOMAIN clientIdMap["homePlanet"]
       = { SentVillains[i][LeagueClientIdKey] : i \in DOMAIN SentVillains }
  /\ Len(EchoedVillains) = Len(SentVillains)
  /\ \A i \in DOMAIN SentVillains :
       /\ Get(EchoedVillains[i], LeagueClientIdKey)
            = SentVillains[i][LeagueClientIdKey]
       /\ Has(EchoedVillains[i], VillainPrimaryKey)

\* C1: Round trip. From an empty clientIdMap, embedding a league whose villains
\* are N children without an id and then normalizing a response that echoes those
\* N children with their placeholders plus server ids gives the id list of those N
\* server ids, in order, and leaves the clientIdMap of the serializer empty.
RoundTrip ==
  [][ (ExtractStep /\ IsRoundTrip) =>
        /\ ListAt(normalized'.payload[LeagueKey], VillainIdsKey)
             = [i \in DOMAIN EchoedVillains |-> EchoedVillains[i][VillainPrimaryKey]]
        /\ clientIdMap'["homePlanet"] = EmptyObject ]_vars

RoundTripWitness ==
  /\ normalized # NoPayload
  /\ Len(SentVillains) >= 2
  /\ Len(EchoedVillains) = Len(SentVillains)
  /\ \A i \in DOMAIN SentVillains :
       /\ Has(SentVillains[i], LeagueClientIdKey)
       /\ Get(EchoedVillains[i], LeagueClientIdKey)
            = SentVillains[i][LeagueClientIdKey]
       /\ Has(EchoedVillains[i], VillainPrimaryKey)
       /\ recId[graph.villains[i]] = EchoedVillains[i][VillainPrimaryKey]
  /\ normalized.payload[LeagueKey][VillainIdsKey]
       = [i \in DOMAIN EchoedVillains |-> EchoedVillains[i][VillainPrimaryKey]]
  /\ clientIdMap["homePlanet"] = EmptyObject

----------------------------------------------------------------------------
\* the nested nodes under a field, none when the field is absent
NodesAt(node, field) == IF Has(node, field) THEN node[field] ELSE <<>>

\* the children of a relation whose placeholder is a live key of the parent
\* serializer's clientIdMap are reconciled by the extract step being taken: the
\* entry goes, the mapped record takes the data, no bucket entry carries the child
ReconciledNotSideloaded(parentType, childType, nodes) ==
  LET clientIdKey == serializers[parentType].clientIdKey
      primaryKey == serializers[childType].primaryKey
      map == clientIdMap[parentType]
      bucket == NodesAt(normalized'.payload, EmbeddedTypeKey(childType))
  IN  \A i \in DOMAIN nodes :
        Has(map, Get(nodes[i], clientIdKey)) =>
          LET clientId == nodes[i][clientIdKey]
          IN  /\ ~Has(clientIdMap'[parentType], clientId)
              /\ Has(nodes[i], primaryKey) =>
                   recId'[map[clientId]] = nodes[i][primaryKey]
              /\ \A j \in DOMAIN bucket : Get(bucket[j], clientIdKey) # clientId

\* the children of a relation that no live entry answers for
Unmatched(parentType, nodes) ==
  { i \in DOMAIN nodes :
      ~Has(clientIdMap[parentType], Get(nodes[i], serializers[parentType].clientIdKey)) }

\* C2: Reconciliation instead of duplication. Whenever normalize meets an embedded
\* child whose placeholder is a live key of the clientIdMap, the mapped record
\* takes the child's data, the entry is deleted and the child is not appended to
\* a sideload bucket: the bucket grows only by the children no entry answers for.
ReconciliationInsteadOfDuplication ==
  [][ ExtractStep =>
        LET villains == NodesAt(response[LeagueKey], VillainsKey)
        IN  /\ ReconciledNotSideloaded("homePlanet", "superVillain", villains)
            /\ Len(NodesAt(normalized'.payload, VillainBucket))
                 = Cardinality(Unmatched("homePlanet", villains))
            /\ \A i \in DOMAIN villains :
                 ReconciledNotSideloaded("superVillain", "evilMinion",
                                         NodesAt(villains[i], keyForAttribute("evilMinions")))
            /\ Len(NodesAt(normalized'.payload, MinionBucket))
                 = Cardinality({ <<i, j>> \in (DOMAIN villains) \X (1..1) :
                      /\ j \in DOMAIN NodesAt(villains[i], keyForAttribute("evilMinions"))
                      /\ j \in Unmatched("superVillain",
                                NodesAt(villains[i], keyForAttribute("evilMinions"))) }) ]_vars

ReconciliationWitness ==
  /\ normalized # NoPayload
  /\ Len(normalized.payload[VillainBucket]) = 1
  /\ \E i \in DOMAIN EchoedVillains :
       /\ Has(EchoedVillains[i], LeagueClientIdKey)
       /\ Has(EchoedVillains[i], VillainPrimaryKey)
       /\ EchoedVillains[i][LeagueClientIdKey] = GuidFor(graph.villains[i])
       /\ recId[graph.villains[i]] = EchoedVillains[i][VillainPrimaryKey]
       /\ ~Has(clientIdMap["homePlanet"], EchoedVillains[i][LeagueClientIdKey])
       /\ normalized.payload[VillainBucket][1] # EchoedVillains[i]
       /\ \E j \in DOMAIN NodesAt(EchoedVillains[i], keyForAttribute("evilMinions")) :
            /\ recId[Minion] # None
            /\ normalized.payload[MinionBucket] = <<>>

----------------------------------------------------------------------------
\* the keys of a serializer's clientIdMap that answer for a record
EntriesOf(type, record) ==
  { g \in DOMAIN clientIdMap[type] : clientIdMap[type][g] = record }

\* C3: Embed guarantee on the map. After any sequence of embed passes, every child
\* that lacked an id at embed time has exactly one live clientIdMap entry, which
\* maps to that child; a child that held an id at embed time has no entry.
EmbedGuarantee ==
  JustEmbedded =>
    /\ \A i \in DOMAIN graph.villains :
         IF recId[graph.villains[i]] = None
         THEN EntriesOf("homePlanet", graph.villains[i]) = {SentVillains[i][LeagueClientIdKey]}
         ELSE EntriesOf("homePlanet", graph.villains[i]) = {}
    /\ graph.minionOf # None =>
         Cardinality(EntriesOf("superVillain", Minion))
           = IF recId[Minion] = None THEN 1 ELSE 0

----------------------------------------------------------------------------
InjectiveMap ==
  \A t \in TypeKeys : \A g1, g2 \in DOMAIN clientIdMap[t] :
    g1 # g2 => clientIdMap[t][g1] # clientIdMap[t][g2]

SentPlaceholdersDiffer ==
  json # NoPayload =>
    \A i, k \in DOMAIN SentVillains :
      (i # k /\ Has(SentVillains[i], LeagueClientIdKey)
             /\ Has(SentVillains[k], LeagueClientIdKey))
        => SentVillains[i][LeagueClientIdKey] # SentVillains[k][LeagueClientIdKey]

NoOverwrite ==
  \A t \in TypeKeys : \A g \in DOMAIN clientIdMap[t] :
    Has(clientIdMap'[t], g) => clientIdMap'[t][g] = clientIdMap[t][g]

\* C4: Placeholder uniqueness. In every reachable state two distinct unconfirmed
\* entities never share a placeholder: the map from placeholder to entity is
\* injective, the placeholders sent for distinct children differ, and no step
\* overwrites a live entry with a different entity.
PlaceholderUniqueness ==
  /\ [](InjectiveMap /\ SentPlaceholdersDiffer)
  /\ [][NoOverwrite]_vars

PlaceholderUniquenessWitness ==
  /\ JustEmbedded
  /\ Cardinality(DOMAIN clientIdMap["homePlanet"]) >= 2
  /\ Len(SentVillains) >= 2
  /\ \A i \in DOMAIN SentVillains : Has(SentVillains[i], LeagueClientIdKey)

----------------------------------------------------------------------------
\* C5: Outbound child shape. Every child of an always-embedded relation is
\* serialized with exactly one identity field: the primary-key field with its id
\* when it has an id, otherwise the clientIdKey field with the generated
\* placeholder; the children appear in the relation's order.
OutboundChildShape ==
  JustEmbedded =>
    /\ Len(SentVillains) = Len(graph.villains)
    /\ \A i \in DOMAIN graph.villains :
         IF recId[graph.villains[i]] # None
         THEN /\ Get(SentVillains[i], VillainPrimaryKey) = recId[graph.villains[i]]
              /\ ~Has(SentVillains[i], LeagueClientIdKey)
         ELSE /\ Get(SentVillains[i], LeagueClientIdKey) = GuidFor(graph.villains[i])
              /\ ~Has(SentVillains[i], VillainPrimaryKey)

----------------------------------------------------------------------------
(* What normalize is measured against: the embedded nodes of a payload in the  *)
(* order the source nests them                                                 *)

\* the hasMany relationships of a type whose nested data normalize flattens
EmbeddedRelations(type) ==
  SelectSeq(Relationships(type),
            LAMBDA r : /\ r.kind = "hasMany"
                       /\ serializers[type].hasAttrs
                       /\ Has(serializers[type].attrs, r.key)
                       /\ serializers[type].attrs[r.key] \in {"always", "load"})

\* the embedded relations a node carries data for
PresentRelations(type, node) ==
  SelectSeq(EmbeddedRelations(type), LAMBDA r : Has(node, keyForAttribute(r.key)))

RECURSIVE VisitRelations(_, _, _)
RECURSIVE VisitChildren(_, _, _, _)

\* the nodes nested below a node, through the relations i.. of its type: each with
\* the type of its parent, its own type and its data, descendants first
VisitRelations(type, node, i) ==
  LET rels == PresentRelations(type, node)
  IN  IF i > Len(rels) THEN <<>>
      ELSE VisitChildren(type, rels[i].type, node[keyForAttribute(rels[i].key)], 1)
             \o VisitRelations(type, node, i + 1)

VisitChildren(parentType, type, nodes, j) ==
  IF j > Len(nodes) THEN <<>>
  ELSE VisitRelations(type, nodes[j], 1)
         \o <<[parent |-> parentType, type |-> type, node |-> nodes[j]]>>
         \o VisitChildren(parentType, type, nodes, j + 1)

\* the root nodes of a payload, for either operation
Roots(op, type, payload) ==
  IF op = "extractSingle" THEN <<payload[keyForAttribute(type)]>>
  ELSE payload[pluralize(keyForAttribute(type))]

RECURSIVE VisitRoots(_, _, _)
VisitRoots(type, roots, i) ==
  IF i > Len(roots) THEN <<>>
  ELSE VisitRelations(type, roots[i], 1) \o VisitRoots(type, roots, i + 1)

\* of the visited nodes i.., those no live entry of the maps answers for when their
\* turn comes: an entry answers once
RECURSIVE NotReconciled(_, _, _)
NotReconciled(visits, i, maps) ==
  IF i > Len(visits) THEN <<>>
  ELSE LET v == visits[i]
           clientId == Get(v.node, serializers[v.parent].clientIdKey)
       IN  IF Has(maps[v.parent], clientId)
           THEN NotReconciled(visits, i + 1,
                              [maps EXCEPT ![v.parent] = Delete(@, clientId)])
           ELSE <<v>> \o NotReconciled(visits, i + 1, maps)

\* the embedded nodes the response holds that are not reconciled by the extract
\* step being taken, and those of one type among them
AllSideloaded ==
  NotReconciled(VisitRoots(normalized'.type,
                           Roots(normalized'.op, normalized'.type, response), 1),
                1, clientIdMap)

OfType(visits, type) == SelectSeq(visits, LAMBDA v : v.type = type)

SideloadedNodes(type) == OfType(AllSideloaded, type)

\* the bucket of the flat payload for one type, by the name the format gives it
Bucket(payload, type) == NodesAt(payload, "_" \o pluralize(type))

\* the fields that identify a node
SameIdentity(a, b) ==
  \A t \in TypeKeys :
    /\ Get(a, serializers[t].primaryKey) = Get(b, serializers[t].primaryKey)
    /\ Get(a, serializers[t].clientIdKey) = Get(b, serializers[t].clientIdKey)

\* the flat form of a node lists, for every embedded relation the node carried
\* data for, as many entries as there were children, the identifier of child j
\* at place j
OrderPreserved(type, node, flat) ==
  LET rels == PresentRelations(type, node)
  IN  \A i \in DOMAIN rels :
        LET children == node[keyForAttribute(rels[i].key)]
            expandedKey == keyForRelationship(rels[i].key, rels[i].kind)
            primaryKey == serializers[rels[i].type].primaryKey
        IN  /\ Has(flat, expandedKey)
            /\ DOMAIN flat[expandedKey] = DOMAIN children
            /\ \A j \in DOMAIN children :
                 Has(children[j], primaryKey) =>
                   flat[expandedKey][j] = children[j][primaryKey]

\* the root nodes before and after the extract step being taken
ResponseRoots == Roots(normalized'.op, normalized'.type, response)
FlatRoots == Roots(normalized'.op, normalized'.type, normalized'.payload)

----------------------------------------------------------------------------
\* C6: Order preservation. For every embedded relation whose nested sequence is
\* [c1, ..., cn], at the root and below it, the id list normalize writes has
\* length n and holds the id of ci at place i, whether ci is sideloaded or
\* reconciled.
OrderPreservation ==
  [][ ExtractStep =>
        /\ DOMAIN FlatRoots = DOMAIN ResponseRoots
        /\ \A i \in DOMAIN ResponseRoots :
             OrderPreserved(normalized'.type, ResponseRoots[i], FlatRoots[i])
        /\ \A all \in {AllSideloaded} : \A t \in TypeKeys :
             \A sideloaded \in {OfType(all, t)} :
               LET bucket == Bucket(normalized'.payload, t)
               IN  /\ DOMAIN bucket = DOMAIN sideloaded
                   /\ \A k \in DOMAIN sideloaded :
                        OrderPreserved(t, sideloaded[k].node, bucket[k]) ]_vars

OrderPreservationWitness ==
  /\ normalized # NoPayload
  /\ normalized.op = "extractSingle"
  /\ normalized.type = "homePlanet"
  /\ Has(response[LeagueKey], VillainsKey)
  /\ Len(EchoedVillains) = 2
  /\ Get(EchoedVillains[1], "id") = "2"
  /\ ~Has(EchoedVillains[1], "_clientId")
  /\ Get(EchoedVillains[2], "id") = "1"
  /\ Get(EchoedVillains[2], "_clientId") = GuidFor(Villain(1))
  /\ recId[Villain(1)] = "1"
  /\ normalized.payload[LeagueKey][VillainIdsKey] = <<"2", "1">>
  /\ Len(normalized.payload[VillainBucket]) = 1

----------------------------------------------------------------------------
CommentKeys == {keyForAttribute("comment"), pluralize(keyForAttribute("comment"))}

\* C7: Same-type recursive embedding. When comments embed comments to any depth,
\* normalize puts every descendant into the bucket '_comments' once per
\* occurrence, and that key is not the key of the root node(s): the root entry
\* keeps its nodes, none overwritten, none appended.
SameTypeEmbedding ==
  [][ (ExtractStep /\ normalized'.type = "comment") =>
        \A descendants \in {SideloadedNodes("comment")} :
        LET bucket == Bucket(normalized'.payload, "comment")
        IN  /\ ("_" \o pluralize("comment")) \notin CommentKeys
            /\ DOMAIN bucket = DOMAIN descendants
            /\ \A k \in DOMAIN bucket : SameIdentity(bucket[k], descendants[k].node)
            /\ DOMAIN FlatRoots = DOMAIN ResponseRoots
            /\ \A i \in DOMAIN FlatRoots : SameIdentity(FlatRoots[i], ResponseRoots[i])
            /\ DOMAIN normalized'.payload \cap CommentKeys
                 = DOMAIN response \cap CommentKeys ]_vars

SameTypeEmbeddingWitness ==
  /\ normalized # NoPayload
  /\ normalized.type = "comment"
  /\ normalized.op = "extractArray"
  /\ Len(response["comments"]) = 1
  /\ Has(response["comments"][1], "children")
  /\ Len(response["comments"][1]["children"]) = 1
  /\ Has(response["comments"][1]["children"][1], "children")
  /\ Len(response["comments"][1]["children"][1]["children"]) = 1
  /\ Len(normalized.payload["comments"]) = 1
  /\ Len(normalized.payload["_comments"]) = 2
  /\ Len(normalized.payload["_comments"][2]["child_ids"]) = 1
  /\ SameIdentity(normalized.payload["_comments"][1],
                  response["comments"][1]["children"][1]["children"][1])

----------------------------------------------------------------------------
ReformedKey == keyForAttribute("reformedVillains")
ReformedIdsKey == keyForRelationship("reformedVillains", "hasMany")

\* the identifiers in an id list are those of these children, place by place
IdsOf(ids, children) ==
  /\ DOMAIN ids = DOMAIN children
  /\ \A j \in DOMAIN children :
       Has(children[j], VillainPrimaryKey) => ids[j] = children[j][VillainPrimaryKey]

BothRelations ==
  /\ normalized'.type = "homePlanet"
  /\ normalized'.op = "extractSingle"
  /\ NodesAt(response[LeagueKey], VillainsKey) # <<>>
  /\ NodesAt(response[LeagueKey], ReformedKey) # <<>>

\* C8: Distinct relations to one target type. When the villains and the reformed
\* villains of one league are both embedded, normalize produces one bucket of
\* super villains that holds the children of both relations, and the id list of
\* each relation holds the ids of its own children and no others.
DistinctRelationsOneType ==
  [][ (ExtractStep /\ BothRelations) =>
        \A sideloaded \in {SideloadedNodes("superVillain")} :
        LET root == response[LeagueKey]
            flat == normalized'.payload[LeagueKey]
            bucket == Bucket(normalized'.payload, "superVillain")
        IN  /\ DOMAIN normalized'.payload
                 \subseteq {LeagueKey, "_superVillains", "_evilMinions"}
            /\ DOMAIN bucket = DOMAIN sideloaded
            /\ \A k \in DOMAIN bucket : SameIdentity(bucket[k], sideloaded[k].node)
            /\ Len(sideloaded) + Cardinality(DOMAIN clientIdMap["homePlanet"]
                                               \ DOMAIN clientIdMap'["homePlanet"])
                 = Len(root[VillainsKey]) + Len(root[ReformedKey])
            /\ IdsOf(ListAt(flat, VillainIdsKey), root[VillainsKey])
            /\ IdsOf(ListAt(flat, ReformedIdsKey), root[ReformedKey]) ]_vars

DistinctRelationsWitness ==
  /\ normalized # NoPayload
  /\ normalized.op = "extractSingle"
  /\ normalized.type = "homePlanet"
  /\ Has(response[LeagueKey], VillainsKey)
  /\ Has(response[LeagueKey], ReformedKey)
  /\ Len(response[LeagueKey][VillainsKey]) = 1
  /\ Len(response[LeagueKey][ReformedKey]) = 1
  /\ Get(response[LeagueKey][VillainsKey][1], "id") = "1"
  /\ Get(response[LeagueKey][ReformedKey][1], "id") = "2"
  /\ normalized.payload[LeagueKey][VillainIdsKey] = <<"1">>
  /\ normalized.payload[LeagueKey][ReformedIdsKey] = <<"2">>
  /\ Len(normalized.payload["_superVillains"]) = 2

----------------------------------------------------------------------------
IsIdList(type, node, flat) ==
  LET rels == PresentRelations(type, node)
  IN  \A i \in DOMAIN rels :
        /\ ~Has(flat, keyForAttribute(rels[i].key))
        /\ Has(flat, keyForRelationship(rels[i].key, rels[i].kind))
        /\ DOMAIN flat[keyForRelationship(rels[i].key, rels[i].kind)]
             = DOMAIN node[keyForAttribute(rels[i].key)]

\* C9: extractArray shares one accumulator over all roots and removes no
\* duplicates. After extractArray the length of each bucket is the number of
\* occurrences, over all roots and all levels, of the embedded children of that
\* type that were not reconciled, and every embedded relation of every root is an
\* id list.
SharedAccumulator ==
  [][ (ExtractStep /\ normalized'.op = "extractArray") =>
        /\ \A all \in {AllSideloaded} : \A t \in TypeKeys :
             Len(Bucket(normalized'.payload, t)) = Len(OfType(all, t))
        /\ DOMAIN FlatRoots = DOMAIN ResponseRoots
        /\ \A i \in DOMAIN ResponseRoots :
             IsIdList(normalized'.type, ResponseRoots[i], FlatRoots[i]) ]_vars

SharedAccumulatorWitness ==
  /\ normalized # NoPayload
  /\ normalized.op = "extractArray"
  /\ normalized.type = "homePlanet"
  /\ Len(response["home_planets"]) = 2
  /\ \A i \in 1..2 :
       /\ Has(response["home_planets"][i], VillainsKey)
       /\ response["home_planets"][i][VillainsKey] = <<[id |-> "1"]>>
       /\ normalized.payload["home_planets"][i][VillainIdsKey] = <<"1">>
  /\ normalized.payload["_superVillains"] = <<[id |-> "1"], [id |-> "1"]>>

----------------------------------------------------------------------------
RecordedIdentifier(parentType, relationship, child) ==
  LET primaryKey == serializers[relationship.type].primaryKey
      clientIdKey == serializers[parentType].clientIdKey
  IN  IF Has(child, primaryKey) THEN child[primaryKey] ELSE Get(child, clientIdKey)

\* C10: Identifier recorded for a sideloaded child. For every embedded child that
\* is not reconciled, the identifier pushed to the id list of the relation is the
\* primary-key value of the child or, when it has none, its placeholder value.
SideloadedIdentifier ==
  [][ ExtractStep =>
        \A i \in DOMAIN ResponseRoots :
          LET rels == PresentRelations(normalized'.type, ResponseRoots[i])
          IN  \A r \in DOMAIN rels :
                LET children == ResponseRoots[i][keyForAttribute(rels[r].key)]
                    ids == FlatRoots[i][keyForRelationship(rels[r].key, rels[r].kind)]
                IN  \A j \in DOMAIN children :
                      ~Has(clientIdMap[normalized'.type],
                           Get(children[j], serializers[normalized'.type].clientIdKey))
                        => ids[j] = RecordedIdentifier(normalized'.type, rels[r],
                                                       children[j]) ]_vars

----------------------------------------------------------------------------
\* the serializer of a type flattens none of its relations
Unconfigured(type) == EmbeddedRelations(type) = <<>>

\* C11: No-op when unconfigured. Normalizing a payload for a type whose serializer
\* has no attrs, or whose attrs set no relation to embedded 'always' or 'load',
\* leaves the payload unchanged, creates no bucket and leaves the clientIdMap
\* unchanged.
NoOpWhenUnconfigured ==
  [][ (ExtractStep /\ Unconfigured(normalized'.type)) =>
        /\ normalized'.payload = response
        /\ normalized'.error = None
        /\ clientIdMap' = clientIdMap
        /\ recId' = recId ]_vars

NoOpWitness ==
  /\ normalized # NoPayload
  /\ normalized.op = "extractSingle"
  /\ normalized.type = "homePlanet"
  /\ serializers["homePlanet"].hasAttrs
  /\ EmbeddedRelations("homePlanet") = <<>>
  /\ Has(response[LeagueKey], VillainsKey)
  /\ Len(response[LeagueKey][VillainsKey]) = 1
  /\ Has(response[LeagueKey][VillainsKey][1], keyForAttribute("evilMinions"))
  /\ normalized.payload = response
  /\ DOMAIN normalized.payload = {LeagueKey}

----------------------------------------------------------------------------
\* every embedded node of the response, reconciled or not, and the root nodes
AllNodes ==
  LET roots == ResponseRoots
      visits == VisitRoots(normalized'.type, roots, 1)
  IN  { [type |-> normalized'.type, node |-> roots[i]] : i \in DOMAIN roots }
        \cup { [type |-> visits[k].type, node |-> visits[k].node] :
               k \in DOMAIN visits }

\* the types some node of the response carries embedded data for
TargetsWithData ==
  UNION { { PresentRelations(n.type, n.node)[x].type :
              x \in DOMAIN PresentRelations(n.type, n.node) } : n \in AllNodes }

\* a relation without data is left alone on the flat node, one with data is
\* rewritten
MissingLeftAlone(type, node, flat) ==
  LET rels == EmbeddedRelations(type)
  IN  \A x \in DOMAIN rels :
        LET attribute == keyForAttribute(rels[x].key)
            expandedKey == keyForRelationship(rels[x].key, rels[x].kind)
        IN  IF ~Has(node, attribute)
            THEN ~Has(flat, attribute) /\ ~Has(flat, expandedKey)
            ELSE /\ Has(flat, expandedKey)
                 /\ DOMAIN flat[expandedKey] = DOMAIN node[attribute]

\* C12: Missing embedded data. When a node has no value under the field of a
\* configured embedded relation, normalize raises no error, leaves the relation
\* alone on that node (no id list, no bucket on its account) and still flattens
\* the other embedded relations of the node that have data.
MissingEmbeddedData ==
  [][ ExtractStep =>
        /\ normalized'.error = None
        /\ DOMAIN FlatRoots = DOMAIN ResponseRoots
        /\ \A i \in DOMAIN ResponseRoots :
             MissingLeftAlone(normalized'.type, ResponseRoots[i], FlatRoots[i])
        /\ \A targets \in {TargetsWithData} : \A t \in TypeKeys :
             Has(normalized'.payload, "_" \o pluralize(t)) <=> t \in targets ]_vars

MissingEmbeddedDataWitness ==
  /\ normalized # NoPayload
  /\ normalized.op = "extractSingle"
  /\ normalized.type = "homePlanet"
  /\ ~Has(response[LeagueKey], VillainsKey)
  /\ Has(response[LeagueKey], ReformedKey)
  /\ Len(response[LeagueKey][ReformedKey]) = 2
  /\ ~Has(response[LeagueKey][ReformedKey][1], keyForAttribute("evilMinions"))
  /\ ~Has(response[LeagueKey][ReformedKey][2], keyForAttribute("evilMinions"))
  /\ ~Has(normalized.payload[LeagueKey], VillainIdsKey)
  /\ ~Has(normalized.payload[LeagueKey], VillainsKey)
  /\ Len(normalized.payload[LeagueKey][ReformedIdsKey]) = 2
  /\ ~Has(normalized.payload, MinionBucket)
  /\ normalized.error = None

----------------------------------------------------------------------------
\* the embedded nodes of the response, in nesting order, reconciled or not
Visited == VisitRoots(normalized'.type, ResponseRoots, 1)

\* the placeholder a visited node carries, under the clientIdKey of its parent's
\* serializer
PlaceholderOf(v) == Get(v.node, serializers[v.parent].clientIdKey)

\* a visited node whose placeholder is no key of the clientIdMap looked up
IsLookupMiss(v) ==
  /\ Has(v.node, serializers[v.parent].clientIdKey)
  /\ ~Has(clientIdMap[v.parent], PlaceholderOf(v))

\* C13: Reconciliation lookup miss. When an embedded child carries a placeholder
\* that is not a key of the clientIdMap, normalize raises no error, appends the
\* child to the bucket of its type as an ordinary new entity and leaves the
\* clientIdMap unchanged.
LookupMiss ==
  [][ ExtractStep =>
        \A visited \in {Visited} :
          /\ normalized'.error = None
          /\ \A t \in TypeKeys : \A p \in TypeKeys :
               \A c \in { PlaceholderOf(visited[k]) :
                          k \in { x \in DOMAIN visited : IsLookupMiss(visited[x]) } } :
                 Cardinality({ j \in DOMAIN Bucket(normalized'.payload, t) :
                                 /\ Get(Bucket(normalized'.payload, t)[j],
                                        serializers[p].clientIdKey) = c })
                   >= Cardinality({ k \in DOMAIN visited :
                                      /\ visited[k].type = t
                                      /\ visited[k].parent = p
                                      /\ IsLookupMiss(visited[k])
                                      /\ PlaceholderOf(visited[k]) = c })
          /\ \A p \in TypeKeys :
               (\A k \in DOMAIN visited :
                  visited[k].parent = p => ~Has(clientIdMap[p], PlaceholderOf(visited[k])))
                 => clientIdMap'[p] = clientIdMap[p] ]_vars

LookupMissWitness ==
  /\ normalized # NoPayload
  /\ normalized.op = "extractSingle"
  /\ normalized.type = "comment"
  /\ clientIdMap["homePlanet"] = (GuidFor(Villain(1)) :> Villain(1))
  /\ clientIdMap["comment"] = EmptyObject
  /\ Has(response["comment"], "children")
  /\ response["comment"]["children"] = <<[_clientId |-> GuidFor(Villain(1))]>>
  /\ normalized.payload["_comments"] = <<[_clientId |-> GuidFor(Villain(1))]>>
  /\ normalized.error = None

----------------------------------------------------------------------------
\* normalize has to descend into a relation whose target type has no model
MeetsUnknownType ==
  \E k \in DOMAIN Visited : ~(Visited[k].type \in container.models)

\* C14: Unknown target type. When normalize descends into an embedded relation
\* whose target type is not registered, the pass ends in a fatal error: the error
\* is not swallowed, and no flat payload is handed on as if the relation had been
\* processed.
UnknownTargetType ==
  [][ ExtractStep =>
        /\ MeetsUnknownType <=> normalized'.error # None
        /\ MeetsUnknownType =>
             /\ normalized'.error = NoModelFound("evilMinion")
             /\ Has(normalized'.payload[LeagueKey], VillainsKey)
             /\ ~Has(normalized'.payload[LeagueKey], VillainIdsKey)
             /\ \E i \in DOMAIN normalized'.payload[LeagueKey][VillainsKey] :
                  /\ Has(normalized'.payload[LeagueKey][VillainsKey][i],
                         keyForAttribute("evilMinions"))
                  /\ ~Has(normalized'.payload[LeagueKey][VillainsKey][i],
                          keyForRelationship("evilMinions", "hasMany")) ]_vars

UnknownTargetTypeWitness ==
  /\ normalized # NoPayload
  /\ normalized.error = NoModelFound("evilMinion")
  /\ Len(EchoedVillains) = 2
  /\ Has(EchoedVillains[2], keyForAttribute("evilMinions"))
  /\ Len(EchoedVillains[2][keyForAttribute("evilMinions")]) = 1
  /\ Has(normalized.payload[LeagueKey], VillainsKey)
  /\ ~Has(normalized.payload[LeagueKey], VillainIdsKey)

----------------------------------------------------------------------------
\* the clientIdMap with every entry gone whose placeholder a node of the response
\* carries under its parent's relation
AllReconciled ==
  [p \in TypeKeys |->
     [g \in DOMAIN clientIdMap[p]
              \ { PlaceholderOf(Visited[k]) :
                    k \in { x \in DOMAIN Visited : Visited[x].parent = p } }
        |-> clientIdMap[p][g]]]

\* C15: Pass atomicity with respect to the map. The clientIdMap observable after a
\* normalize pass is the map from before the pass or the map with all of the
\* mutations of the pass applied, also when the pass ends with an error part-way
\* through.
PassAtomicity ==
  [][ ExtractStep =>
        \/ clientIdMap' = clientIdMap
        \/ clientIdMap' = AllReconciled ]_vars

----------------------------------------------------------------------------
\* the step taken is an embedding pass
EmbedStep == response' = NoPayload /\ normalized' = NoPayload /\ json' # NoPayload

\* a node normalize processes under a relation of type p carries placeholder g
Processes(p, g) ==
  \E visited \in {Visited} :
    \E k \in DOMAIN visited :
      visited[k].parent = p /\ PlaceholderOf(visited[k]) = g

\* C16: Map mutation discipline and orphans. A clientIdMap entry is added only by
\* an embed step, for a child without an id, and is removed only by a normalize
\* step that processes a child node carrying the placeholder of that entry;
\* normalize never adds an entry and embed never removes one, so an entry whose
\* placeholder no normalized response carries stays in the map.
MapMutationDiscipline ==
  [][ \A p \in TypeKeys :
        /\ \A g \in DOMAIN clientIdMap'[p] \ DOMAIN clientIdMap[p] :
             /\ EmbedStep
             /\ recId[clientIdMap'[p][g]] = None
        /\ \A g \in DOMAIN clientIdMap[p] \ DOMAIN clientIdMap'[p] :
             /\ ExtractStep
             /\ Processes(p, g) ]_vars

----------------------------------------------------------------------------
(* Two saves of the league on the one serializer, the second begun before the  *)
(* response to the first is normalized                                         *)

\* the tests' records and serializers, nothing embedded yet
InitOverlap ==
  /\ container = FullContainer
  /\ overlap = NoPayload
  /\ serializers = Registered("_clientId", "id")
  /\ clientIdMap = [t \in TypeKeys |-> EmptyObject]
  /\ recId = [r \in Records |-> IF r = League THEN "123" ELSE None]
  /\ graph = [villains |-> <<>>, minionOf |-> None]
  /\ json = NoPayload
  /\ response = NoPayload
  /\ normalized = NoPayload

\* serializer.serialize(league) again while the first request is outstanding
SerializeOverlapping ==
  /\ json # NoPayload
  /\ normalized = NoPayload
  /\ overlap = NoPayload
  /\ LET s == serialize(League, clientIdMap, graph)
     IN  /\ overlap' = [json |-> s.json, response |-> NoPayload,
                        normalized |-> NoPayload]
         /\ clientIdMap' = s.maps
  /\ UNCHANGED <<container, serializers, recId, graph, json, response, normalized>>

\* the answer to a request that confirms every new child: each embedded node
\* comes back with what was sent and an identifier
Confirms(sent, root) ==
  LET asked == VisitRoots("homePlanet", <<sent>>, 1)
      answered == VisitRoots("homePlanet", <<root>>, 1)
  IN  \A k \in DOMAIN asked :
        /\ Has(answered[k].node, serializers[answered[k].type].primaryKey)
        /\ Has(asked[k].node, serializers[asked[k].parent].clientIdKey)
             => Has(answered[k].node, serializers[asked[k].parent].clientIdKey)

\* the server answers the second request, every new child confirmed
RespondOverlapping ==
  /\ overlap # NoPayload
  /\ overlap.response = NoPayload
  /\ \E root \in { r \in ServerFields("homePlanet", 1, overlap.json) :
                      Confirms(overlap.json, r) } :
       overlap' = [overlap EXCEPT !.response = (keyForAttribute("homePlanet") :> root)]
  /\ UNCHANGED <<container, serializers, clientIdMap, recId, graph, json,
                 response, normalized>>

\* extractSingle on the response to the second request
ExtractSingleOverlapping ==
  /\ overlap # NoPayload
  /\ overlap.response # NoPayload
  /\ overlap.normalized = NoPayload
  /\ LET st == extractSingle("homePlanet", overlap.response)
     IN  /\ overlap' = [overlap EXCEPT !.normalized =
                          [op |-> "extractSingle", type |-> "homePlanet",
                           payload |-> st.payload, error |-> st.error,
                           depth |-> st.deepest]]
         /\ clientIdMap' = st.maps
         /\ recId' = st.ids
  /\ UNCHANGED <<container, serializers, graph, json, response, normalized>>

NextOverlap ==
  \/ Serialize
  \/ Respond
  \/ ExtractSingle
  \/ SerializeOverlapping
  \/ RespondOverlapping
  \/ ExtractSingleOverlapping

SpecOverlap == InitOverlap /\ [][NextOverlap]_vars

----------------------------------------------------------------------------
(* Saves of the league with a villain and the villain's minion embedded, and   *)
(* answers that carry a placeholder under the relation of the other level      *)

\* a confirming answer with the placeholders crossed: a villain carries the
\* placeholder of the minion, a minion the placeholder of its villain
Crossed(root) ==
  LET minionsKey == keyForAttribute("evilMinions")
      villainsKey == keyForAttribute("villains")
      leagueKey == serializers["homePlanet"].clientIdKey
      villainKey == serializers["superVillain"].clientIdKey
      minions(i) ==
        [j \in DOMAIN root[villainsKey][i][minionsKey] |->
           Put(root[villainsKey][i][minionsKey][j], villainKey,
               GuidFor(graph.villains[i]))]
      villain(i) ==
        Put(Put(root[villainsKey][i], leagueKey, GuidFor(Minion)),
            minionsKey, minions(i))
  IN  Put(root, villainsKey, [i \in DOMAIN root[villainsKey] |-> villain(i)])

\* the server answers with the placeholders under the wrong relations
RespondCrossed ==
  /\ json # NoPayload
  /\ response = NoPayload
  /\ \E root \in { r \in ServerFields("homePlanet", 1, json) : Confirms(json, r) } :
       response' = (keyForAttribute("homePlanet") :> Crossed(root))
  /\ UNCHANGED <<container, serializers, clientIdMap, recId, graph, json,
                 normalized, overlap>>

InitNested == InitOverlap

NextNested == Serialize \/ Respond \/ RespondCrossed \/ ExtractSingle

SpecNested == InitNested /\ [][NextNested]_vars

----------------------------------------------------------------------------
\* the embedded nodes of a response of the league, each with its parent's type
VisitedIn(payload) == VisitRoots("homePlanet", <<payload[LeagueKey]>>, 1)

\* some embedded node of the response carries placeholder g under a relation of
\* type p
Carries(payload, p, g) ==
  /\ payload # NoPayload
  /\ \E k \in DOMAIN VisitedIn(payload) :
       /\ VisitedIn(payload)[k].parent = p
       /\ PlaceholderOf(VisitedIn(payload)[k]) = g

\* the extract step on the second response has just run
ExtractOverlappingStep ==
  /\ overlap # NoPayload
  /\ overlap' # NoPayload
  /\ overlap.normalized = NoPayload
  /\ overlap'.normalized # NoPayload

\* the response of the other cycle when it has been normalized already
OtherOfFirst ==
  IF overlap # NoPayload /\ overlap.normalized # NoPayload THEN overlap.response
  ELSE NoPayload

OtherOfSecond == IF normalized # NoPayload THEN response ELSE NoPayload

\* a node carrying placeholder g is in the villains' bucket of the flat payload
SideloadedVillain(flat, g) ==
  \E j \in DOMAIN Bucket(flat, "superVillain") :
    Get(Bucket(flat, "superVillain")[j], LeagueClientIdKey) = g

\* normalizing a response while the other cycle's response (other) was or was not
\* normalized before: a placeholder that is live is reconciled; one that is not
\* live was consumed by the other cycle; and a villain both responses echo with
\* its placeholder, the other having been normalized first, has lost its entry
\* and is sideloaded without its record taking the data
PrematureMutation(own, flat, other) ==
  LET visited == VisitedIn(own)
      echoed == own[LeagueKey][VillainsKey]
  IN  /\ \A k \in DOMAIN visited :
           Has(visited[k].node, serializers[visited[k].parent].clientIdKey) =>
             IF Has(clientIdMap[visited[k].parent], PlaceholderOf(visited[k]))
             THEN ~Has(clientIdMap'[visited[k].parent], PlaceholderOf(visited[k]))
             ELSE Carries(other, visited[k].parent, PlaceholderOf(visited[k]))
      /\ other # NoPayload =>
           \A i \in DOMAIN echoed :
             ( /\ Has(echoed[i], LeagueClientIdKey)
               /\ Has(other[LeagueKey][VillainsKey][i], LeagueClientIdKey) )
               => /\ ~Has(clientIdMap["homePlanet"], echoed[i][LeagueClientIdKey])
                  /\ SideloadedVillain(flat, echoed[i][LeagueClientIdKey])
                  /\ recId'[graph.villains[i]] = recId[graph.villains[i]]

\* C17: Overlapping cycles hazard. When two embed->normalize cycles on the one
\* serializer overlap and both embed the same child without an id, normalizing
\* the first response deletes the map entry the second response still needs, so
\* the child of the second response is sideloaded as a new entity instead of being
\* reconciled; when the cycles are sequential every echoed placeholder is live and
\* reconciled.
OverlappingCyclesHazard ==
  [][ /\ ExtractStep => PrematureMutation(response, normalized'.payload, OtherOfFirst)
      /\ ExtractOverlappingStep =>
           PrematureMutation(overlap.response, overlap'.normalized.payload,
                             OtherOfSecond) ]_vars

OverlappingCyclesWitness ==
  /\ normalized # NoPayload
  /\ overlap # NoPayload
  /\ overlap.normalized # NoPayload
  /\ Len(EchoedVillains) >= 1
  /\ Get(EchoedVillains[1], LeagueClientIdKey) = GuidFor(graph.villains[1])
  /\ Get(overlap.response[LeagueKey][VillainsKey][1], LeagueClientIdKey)
       = GuidFor(graph.villains[1])
  /\ ~SideloadedVillain(normalized.payload, GuidFor(graph.villains[1]))
  /\ SideloadedVillain(overlap.normalized.payload, GuidFor(graph.villains[1]))
  /\ ~Has(clientIdMap["homePlanet"], GuidFor(graph.villains[1]))

----------------------------------------------------------------------------
\* the records whose clientIdMap entry the step being taken clears
Cleared ==
  UNION { { clientIdMap[p][g] : g \in DOMAIN clientIdMap[p] \ DOMAIN clientIdMap'[p] }
          : p \in TypeKeys }

\* the records with an identifier and no clientIdMap entry
Settled ==
  { r \in Records :
      /\ recId[r] # None
      /\ \A p \in TypeKeys : \A g \in DOMAIN clientIdMap[p] : clientIdMap[p][g] # r }

\* C18: Per-child state machine. A child moves from Embedded to Confirmed only
\* with both effects together: whenever normalize has cleared the clientIdMap
\* entry of a child, that child has been assigned an identifier, also when the
\* echoed node carries the placeholder but no primary-key value; and a Confirmed
\* child is never given a map entry again by a later embed.
PerChildStateMachine ==
  [][ /\ ExtractStep => \A r \in Cleared : recId'[r] # None
      /\ EmbedStep =>
           \A r \in Settled :
             \A p \in TypeKeys : \A g \in DOMAIN clientIdMap'[p] :
               clientIdMap'[p][g] # r ]_vars

----------------------------------------------------------------------------
\* the flat form of a node holds, for every embedded relation the node carried
\* data for, a list of as many identifiers as there were children under the
\* relation's id field, and the nested data no more
Rewritten(type, node, flat) ==
  LET rels == PresentRelations(type, node)
  IN  \A i \in DOMAIN rels :
        LET attribute == keyForAttribute(rels[i].key)
            expandedKey == keyForRelationship(rels[i].key, rels[i].kind)
            primaryKey == serializers[rels[i].type].primaryKey
        IN  /\ Has(flat, expandedKey)
            /\ DOMAIN flat[expandedKey] = DOMAIN node[attribute]
            /\ \A j \in DOMAIN node[attribute] :
                 flat[expandedKey][j] = Get(node[attribute][j], primaryKey)
            /\ attribute # expandedKey => ~Has(flat, attribute)

\* C19: Relation rewrite. After normalize, for every embedded relation that had
\* data on a node, the node holds the ordered id list under the relation's id
\* field and no longer holds the nested child data, for every choice of the two
\* external field names, also when keyForRelationship gives the name
\* keyForAttribute gives: the id list is still present then.
RelationRewrite ==
  [][ ExtractStep =>
        \A i \in DOMAIN ResponseRoots :
          Rewritten(normalized'.type, ResponseRoots[i], FlatRoots[i]) ]_vars

----------------------------------------------------------------------------
\* the nodes nested below a node, in the order the source nests them
Descendants(type, node) == VisitRelations(type, node, 1)

\* the entries of the comments' bucket just before entry k are the d descendants
\* of the node entry k stands for, and entry k is that node
DescendantsFirst(bucket, visited, k) ==
  LET below == Descendants("comment", visited[k].node)
      d == Len(below)
  IN  /\ k > d
      /\ k <= Len(bucket)
      /\ SameIdentity(bucket[k], visited[k].node)
      /\ \A j \in 1..d : SameIdentity(bucket[k - d + j - 1], below[j].node)

\* every entry of a bucket is flat: the relations its node carried data for are
\* id lists, and no nested data is left on it
FlatEntries(sideloaded) ==
  \A t \in TypeKeys :
    LET nodes == OfType(sideloaded, t)
        bucket == Bucket(normalized'.payload, t)
    IN  /\ Len(bucket) = Len(nodes)
        /\ \A k \in DOMAIN nodes : IsIdList(t, nodes[k].node, bucket[k])

\* C20: Depth-first sideload order. Normalize flattens and sideloads the embedded
\* grandchildren of a child before it appends the child itself: in a tree of
\* comments every descendant is in the bucket before its ancestor (post-order),
\* and every node of a bucket is flat when appended, its embedded relations being
\* id lists.
DepthFirstSideloadOrder ==
  [][ ExtractStep =>
        /\ \A sideloaded \in {AllSideloaded} : FlatEntries(sideloaded)
        /\ normalized'.type = "comment" =>
             \A visited \in {Visited} :
               \A k \in DOMAIN visited :
                 DescendantsFirst(Bucket(normalized'.payload, "comment"),
                                  visited, k) ]_vars

DepthFirstWitness ==
  /\ normalized # NoPayload
  /\ normalized.op = "extractSingle"
  /\ normalized.type = "comment"
  /\ response["comment"]
       = [id |-> "1",
          children |-> <<[id |-> "2", children |-> <<[id |-> "1"]>>]>>]
  /\ normalized.payload["_comments"]
       = <<[id |-> "1"], [id |-> "2", child_ids |-> <<"1">>]>>
  /\ normalized.payload["comment"] = [id |-> "1", child_ids |-> <<"2">>]

----------------------------------------------------------------------------
\* the embedded policy a serializer sets for a relation, undefined when it sets none
PolicyOf(type, key) ==
  IF serializers[type].hasAttrs /\ Has(serializers[type].attrs, key)
  THEN serializers[type].attrs[key]
  ELSE Undefined

\* the outgoing node of a record holds the embedded children of a hasMany
\* relation exactly when the policy of the relation is 'always'
EmbeddedOnlyOnAlways(type, out) ==
  \A i \in DOMAIN Relationships(type) :
    LET r == Relationships(type)[i]
    IN  r.kind = "hasMany" =>
          (Has(out, keyForAttribute(r.key)) <=> PolicyOf(type, r.key) = "always")

\* no hasMany relation of the type has the policy 'always'
NothingToEmbed(type) ==
  \A i \in DOMAIN Relationships(type) :
    Relationships(type)[i].kind = "hasMany"
      => PolicyOf(type, Relationships(type)[i].key) # "always"

\* every field of a node that holds data of a relation is, on the flat node, an
\* id list in place of the data when the relation is a hasMany with policy
\* 'always' or 'load', and is the untouched data in every other case
FlattenedAsConfigured(type, node, flat) ==
  \A i \in DOMAIN Relationships(type) :
    LET r == Relationships(type)[i]
        attribute == keyForAttribute(r.key)
        expandedKey == keyForRelationship(r.key, r.kind)
    IN  Has(node, attribute) =>
          IF r.kind = "hasMany" /\ PolicyOf(type, r.key) \in {"always", "load"}
          THEN /\ Has(flat, expandedKey)
               /\ DOMAIN flat[expandedKey] = DOMAIN node[attribute]
               /\ ~Has(flat, attribute)
          ELSE /\ Has(flat, attribute)
               /\ flat[attribute] = node[attribute]
               /\ ~Has(flat, expandedKey)

----------------------------------------------------------------------------
\* the fields of a payload node that hold nested nodes
NestedFields ==
  UNION { { keyForAttribute(Relationships(t)[i].key) :
              i \in { x \in DOMAIN Relationships(t) :
                        Relationships(t)[x].kind = "hasMany" } }
          : t \in TypeKeys }

Largest(numbers) == CHOOSE n \in numbers : \A m \in numbers : m <= n

RECURSIVE NestingDepth(_)

\* the nesting depth of a payload node: the levels of nested nodes below it
NestingDepth(node) ==
  LET below == UNION { { NestingDepth(node[f][j]) : j \in DOMAIN node[f] }
                       : f \in NestedFields \cap DOMAIN node }
  IN  IF below = {} THEN 0 ELSE 1 + Largest(below)

\* the nesting depth of a payload: one level for its roots, and the levels below
DepthOf(roots) ==
  Largest({0} \cup { 1 + NestingDepth(roots[i]) : i \in DOMAIN roots })

PayloadDepth == DepthOf(ResponseRoots)

\* a payload has just been handed to the serializer
ReceiveStep == response = NoPayload /\ response' # NoPayload

\* normalize applied to a payload returns, without error, with every call of
\* updatePayloadWithEmbedded returned from, and was never nested deeper than the
\* payload is
Returns(st, roots) ==
  /\ st.error = None
  /\ st.level = 0
  /\ st.deepest <= DepthOf(roots)

Normalizes(payload) ==
  \A t \in PrimaryTypes :
    /\ Has(payload, keyForAttribute(t)) =>
         \A st \in {extractSingle(t, payload)} :
           Returns(st, Roots("extractSingle", t, payload))
    /\ Has(payload, pluralize(keyForAttribute(t))) =>
         \A st \in {extractArray(t, payload)} :
           Returns(st, Roots("extractArray", t, payload))

----------------------------------------------------------------------------
\* the placeholders the embedded nodes under the relations owned by type p carry
CarriedUnder(visited, p) ==
  { PlaceholderOf(visited[k]) :
      k \in { x \in DOMAIN visited :
                /\ visited[x].parent = p
                /\ Has(visited[x].node, serializers[p].clientIdKey) } }

\* the request embedded the league's new villains and a new minion under one of
\* them, the maps held those entries only, and the response echoes each of them
\* with its placeholder and a server id
IsTwoLevelRoundTrip ==
  /\ graph.minionOf # None
  /\ \A r \in Villains \cup {Minion} : recId[r] = None
  /\ clientIdMap["homePlanet"]
       = [g \in { GuidFor(graph.villains[i]) : i \in DOMAIN graph.villains }
            |-> CHOOSE r \in Villains : GuidFor(r) = g]
  /\ clientIdMap["superVillain"] = (GuidFor(Minion) :> Minion)
  /\ Confirms(json, response[LeagueKey])
  /\ \A visited \in {VisitedIn(response)} :
       \A k \in DOMAIN visited :
         Get(visited[k].node, serializers[visited[k].parent].clientIdKey)
           = Get(VisitedIn((LeagueKey :> json))[k].node,
                 serializers[visited[k].parent].clientIdKey)

\* C23: Map context used at nested levels. A placeholder is registered in, and
\* looked up in, the clientIdMap of the serializer of the type that owns the
\* embedded relation, the parent's serializer at each level: a two-level round
\* trip reconciles both the child and the grandchild and leaves every clientIdMap
\* empty, and a placeholder is never reconciled against, nor deleted from, the
\* map of another serializer.
MapContextAtNestedLevels ==
  [][ /\ EmbedStep =>
           \A sent \in {VisitedIn((LeagueKey :> json'))} :
             \A p \in TypeKeys :
               DOMAIN clientIdMap'[p] \ DOMAIN clientIdMap[p]
                 \subseteq CarriedUnder(sent, p)
      /\ ExtractStep =>
           \A visited \in {Visited} :
             /\ \A p \in TypeKeys :
                  /\ DOMAIN clientIdMap'[p]
                       = DOMAIN clientIdMap[p] \ CarriedUnder(visited, p)
                  /\ \A g \in DOMAIN clientIdMap'[p] :
                       clientIdMap'[p][g] = clientIdMap[p][g]
             /\ \A r \in Records :
                  recId'[r] # recId[r] =>
                    \E k \in DOMAIN visited :
                      /\ Has(clientIdMap[visited[k].parent], PlaceholderOf(visited[k]))
                      /\ clientIdMap[visited[k].parent][PlaceholderOf(visited[k])] = r
                      /\ recId'[r]
                           = Get(visited[k].node,
                                 serializers[visited[k].type].primaryKey)
      /\ (ExtractStep /\ IsTwoLevelRoundTrip) =>
           /\ clientIdMap' = [t \in TypeKeys |-> EmptyObject]
           /\ \A r \in Range(graph.villains) \cup {Minion} :
                recId'[r] = ServerId(GuidFor(r)) ]_vars

MapContextWitness ==
  /\ normalized # NoPayload
  /\ graph.minionOf # None
  /\ Len(graph.villains) = 2
  /\ Confirms(json, response[LeagueKey])
  /\ Has(json[VillainsKey][2], keyForAttribute("evilMinions"))
  /\ Get(json[VillainsKey][2][keyForAttribute("evilMinions")][1], "_clientId")
       = GuidFor(Minion)
  /\ Get(response[LeagueKey][VillainsKey][2][keyForAttribute("evilMinions")][1],
         "_clientId") = GuidFor(Minion)
  /\ \A r \in Records : recId[r] # None
  /\ recId[Minion] = ServerId(GuidFor(Minion))
  /\ clientIdMap = [t \in TypeKeys |-> EmptyObject]

====
